---- MODULE Spec2Model ----
(***************************************************************************)
(* SpotInfer: the offer catalog of DatacrunchAdapter (filtering, ranking,  *)
(* GPU label catalog) and the GPU label extractor of utils/gpu.py.         *)
(*                                                                         *)
(* A Python str is a sequence of one-character strings, so that upper(),   *)
(* the `in` substring test, re.search and the ordering of sorted() are     *)
(* computed character by character.  An Optional[T] is a sequence of       *)
(* length 0 (None) or 1 (the value).  Prices are integers in a fixed unit. *)
(***************************************************************************)
EXTENDS Integers, Sequences, FiniteSets, TLC

\* Longest snapshot the SDK client hands out.
MaxOffers == 3

None == <<>>
Some(x) == <<x>>

(***************************************************************************)
(* Characters and Python's str operations                                  *)
(***************************************************************************)
\* The characters of the model in code point order (ASCII).
AsciiOrder ==
  <<"\t", " ", "0","1","2","3","4","5","6","7","8","9",
    "A","B","C","D","E","F","G","H","I","J","K","L","M",
    "N","O","P","Q","R","S","T","U","V","W","X","Y","Z",
    "a","b","c","d","e","f","g","h","i","j","k","l","m",
    "n","o","p","q","r","s","t","u","v","w","x","y","z">>

ord(c) == CHOOSE i \in 1..Len(AsciiOrder) : AsciiOrder[i] = c

LowerCase == <<"a","b","c","d","e","f","g","h","i","j","k","l","m","n","o","p","q","r","s","t","u","v","w","x","y","z">>
UpperCase == <<"A","B","C","D","E","F","G","H","I","J","K","L","M","N","O","P","Q","R","S","T","U","V","W","X","Y","Z">>

\* One character of str.upper(): a lower-case letter becomes its capital.
UpperChar(c) ==
  IF \E i \in 1..Len(LowerCase) : LowerCase[i] = c
  THEN UpperCase[CHOOSE i \in 1..Len(LowerCase) : LowerCase[i] = c]
  ELSE c

\* The text left in the case it came in.
str_upper_identity(s) == s

\* str.upper()
str_upper(s) == [i \in 1..Len(s) |-> UpperChar(s[i])]

\* needle found only where hay begins with it.
str_in_at_start(needle, hay) ==
  Len(needle) <= Len(hay) /\ SubSeq(hay, 1, Len(needle)) = needle

\* needle in hay, Python's substring test (the empty str is in every str).
str_in(needle, hay) ==
  \E i \in 0..(Len(hay) - Len(needle)) :
     SubSeq(hay, i + 1, i + Len(needle)) = needle

\* a < b on str: lexicographic by code point.
RECURSIVE str_lt(_, _)
str_lt(a, b) ==
  IF b = <<>> THEN FALSE
  ELSE IF a = <<>> THEN TRUE
  ELSE IF Head(a) = Head(b) THEN str_lt(Tail(a), Tail(b))
  ELSE ord(Head(a)) < ord(Head(b))

\* dict.get(key, default) on a key that may be missing.
dict_get(entry, default) == IF entry = None THEN default ELSE entry[1]

(***************************************************************************)
(* Regular expressions of the rule table                                   *)
(***************************************************************************)
\* The pattern element \s+ ; every other element is a literal character.
WS == "\\s+"
\* The characters \s matches.
Whitespace == {" ", "\t"}

\* Length of the run of whitespace of s that starts at position i.
RECURSIVE WsRun(_, _)
WsRun(s, i) ==
  IF i <= Len(s) /\ s[i] \in Whitespace THEN 1 + WsRun(s, i + 1) ELSE 0

\* The position after the match of the elements `items` that starts at
\* position i of s, or 0 when they do not match there.  \s+ is greedy; in
\* every pattern of the table it is followed by a literal that is not
\* whitespace, so giving characters back can never produce a match.
RECURSIVE MatchAt(_, _, _)
MatchAt(items, s, i) ==
  IF items = <<>> THEN i
  ELSE IF Head(items) = WS
    THEN LET n == WsRun(s, i)
         IN  IF n = 0 THEN 0 ELSE MatchAt(Tail(items), s, i + n)
  ELSE IF i <= Len(s) /\ s[i] = Head(items)
    THEN MatchAt(Tail(items), s, i + 1)
  ELSE 0

\* re.search(pattern, s) followed by match.group(1): the text captured by
\* the group at the leftmost position where the whole pattern matches, or
\* None.  A pattern is [group, rest]: "(group)rest".
re_search(pattern, s) ==
  LET whole == pattern.group \o pattern.rest
      starts == {i \in 1..(Len(s) + 1) : MatchAt(whole, s, i) # 0}
  IN  IF starts = {} THEN None
      ELSE LET i == CHOOSE k \in starts : \A m \in starts : k <= m
           IN  Some(SubSeq(s, i, MatchAt(pattern.group, s, i) - 1))

\* The ordered rule table shared by the utilities.
GPU_PATTERNS ==
  << [group |-> <<"B","3","0","0">>, rest |-> <<WS>> \o <<"S","X","M","6">>],
     [group |-> <<"B","2","0","0">>, rest |-> <<WS>> \o <<"S","X","M","6">>],
     [group |-> <<"H","2","0","0">>, rest |-> <<WS>> \o <<"S","X","M","5">>],
     [group |-> <<"H","1","0","0">>, rest |-> <<WS>> \o <<"S","X","M","5">>],
     [group |-> <<"A","1","0","0">>, rest |-> <<WS>> \o <<"S","X","M","4">>],
     [group |-> <<"R","T","X">> \o <<WS>> \o <<"P","R","O">>, rest |-> <<WS>> \o <<"6","0","0","0">>],
     [group |-> <<"R","T","X">> \o <<WS>> \o <<"6","0","0","0">>, rest |-> <<WS>> \o <<"A","d","a">>],
     [group |-> <<"R","T","X">> \o <<WS>> \o <<"A","6","0","0","0">>, rest |-> <<>>],
     [group |-> <<"T","e","s","l","a">> \o <<WS>> \o <<"V","1","0","0">>, rest |-> <<>>],
     [group |-> <<"L","4","0","S">>, rest |-> <<>>] >>

\* The table walked from its last rule to its first.
RECURSIVE last_match(_, _)
last_match(table, s) ==
  IF table = <<>> THEN None
  ELSE LET m == re_search(table[Len(table)], s)
       IN  IF m # None THEN m ELSE last_match(SubSeq(table, 1, Len(table) - 1), s)

\* for pattern in GPU_PATTERNS: the capture of the first pattern that matches.
RECURSIVE first_match(_, _)
first_match(table, s) ==
  IF table = <<>> THEN None
  ELSE LET m == re_search(Head(table), s)
       IN  IF m # None THEN m ELSE first_match(Tail(table), s)

\* The loop over the table on an Optional[str]: re.search raises TypeError
\* when handed None.
search_table(table, gpu_description) ==
  IF gpu_description = None
  THEN [value |-> None, raised |-> "TypeError"]
  ELSE [value |-> first_match(table, gpu_description[1]), raised |-> ""]

\* `if not gpu_description:` on an Optional[str]: None and "" are both false.
truthy(text) == text # None /\ text[1] # <<>>

\* The table matched without regard to case, as re.IGNORECASE would.
extract_gpu_type_ignorecase(gpu_description) ==
  IF ~truthy(gpu_description)
  THEN [value |-> None, raised |-> ""]
  ELSE search_table(
         [i \in 1..Len(GPU_PATTERNS) |->
            [group |-> str_upper(GPU_PATTERNS[i].group),
             rest |-> str_upper(GPU_PATTERNS[i].rest)]],
         Some(str_upper(gpu_description[1])))

\* extract_gpu_type(gpu_description): [value, raised].
extract_gpu_type(gpu_description) ==
  IF ~truthy(gpu_description)
  THEN [value |-> None, raised |-> ""]
  ELSE search_table(GPU_PATTERNS, gpu_description)

(***************************************************************************)
(* list.sort(key=...) and sorted()                                         *)
(***************************************************************************)
\* x put before the elements of equal key: equal keys come out reversed.
RECURSIVE insert_unstable(_, _, _)
insert_unstable(s, x, key) ==
  IF s = <<>> THEN <<x>>
  ELSE IF x[key] <= Head(s)[key] THEN <<x>> \o s
  ELSE <<Head(s)>> \o insert_unstable(Tail(s), x, key)

\* One step of the stable sort: x goes after every element whose key is not
\* greater than its own.
RECURSIVE insert(_, _, _)
insert(s, x, key) ==
  IF s = <<>> THEN <<x>>
  ELSE IF x[key] < Head(s)[key] THEN <<x>> \o s
  ELSE <<Head(s)>> \o insert(Tail(s), x, key)

\* list.sort(key=lambda x: x.<key>): ascending and stable.
RECURSIVE list_sort(_, _)
list_sort(s, key) ==
  IF s = <<>> THEN <<>>
  ELSE insert(list_sort(SubSeq(s, 1, Len(s) - 1), key), s[Len(s)], key)

\* sorted(list(gpu_types)) on a set of str.
RECURSIVE sorted(_)
sorted(S) ==
  IF S = {} THEN <<>>
  ELSE LET m == CHOOSE x \in S : \A y \in S : x = y \/ str_lt(x, y)
       IN  <<m>> \o sorted(S \ {m})

(***************************************************************************)
(* DatacrunchAdapter queries, as functions of the list the SDK returns     *)
(***************************************************************************)
\* get_instance_types: the SDK's list itself.
get_instance_types(instance_types) == instance_types

\* Every offer, ordered by spot price, none left out.
get_spot_instance_types_sorted(instance_types) ==
  list_sort(get_instance_types(instance_types), "spot_price_per_hour")

\* get_spot_instance_types
get_spot_instance_types(instance_types) ==
  LET HasSpot(it) == it.spot_price_per_hour > 0
  IN  SelectSeq(get_instance_types(instance_types), HasSpot)

\* The query compared as typed, only the description upper-cased.
filter_by_gpu_type_raw_query(instance_types, gpu_type) ==
  LET Hit(itype) ==
        str_in(gpu_type, str_upper(dict_get(itype.gpu.description, <<>>)))
  IN  list_sort(SelectSeq(get_instance_types(instance_types), Hit), "price_per_hour")

\* filter_by_gpu_type
filter_by_gpu_type(instance_types, gpu_type) ==
  LET gpu_type_upper == str_upper(gpu_type)
      Hit(itype) ==
        str_in(gpu_type_upper, str_upper(dict_get(itype.gpu.description, <<>>)))
  IN  list_sort(SelectSeq(get_instance_types(instance_types), Hit), "price_per_hour")

\* offers[0]: IndexError on an empty list.
list_first(offers) ==
  IF offers = <<>> THEN [value |-> None, raised |-> "IndexError"]
  ELSE [value |-> Some(offers[1]), raised |-> ""]

\* The spot flag tested before the label.
cheapest_choose_spot_first(instance_types, gpu_type, spot) ==
  IF spot
  THEN [offers |-> get_spot_instance_types(instance_types), aliased |-> FALSE]
  ELSE IF truthy(gpu_type)
  THEN [offers |-> filter_by_gpu_type(instance_types, gpu_type[1]), aliased |-> FALSE]
  ELSE [offers |-> get_instance_types(instance_types), aliased |-> TRUE]

\* The first branch of get_cheapest_offer, which picks the candidates:
\* offers is the candidate list, aliased says whether that list is the
\* SDK's own list object.
cheapest_choose(instance_types, gpu_type, spot) ==
  IF truthy(gpu_type)
  THEN [offers |-> filter_by_gpu_type(instance_types, gpu_type[1]), aliased |-> FALSE]
  ELSE IF spot
  THEN [offers |-> get_spot_instance_types(instance_types), aliased |-> FALSE]
  ELSE [offers |-> get_instance_types(instance_types), aliased |-> TRUE]

\* get_cheapest_offer without its `if not offers` test.
get_cheapest_offer_unguarded(instance_types, gpu_type, spot) ==
  LET c == cheapest_choose(instance_types, gpu_type, spot)
      s == list_sort(c.offers,
             IF spot THEN "spot_price_per_hour" ELSE "price_per_hour")
      r == list_first(s)
  IN  [offers |-> c.offers, aliased |-> c.aliased, sorted |-> s,
       value |-> r.value, raised |-> r.raised]

\* get_cheapest_offer: offers is the candidate list before the in-place
\* sort, sorted the list after it, value the return value.
get_cheapest_offer(instance_types, gpu_type, spot) ==
  LET c == cheapest_choose(instance_types, gpu_type, spot)
  IN  IF c.offers = <<>>
      THEN [offers |-> c.offers, aliased |-> c.aliased, sorted |-> c.offers,
            value |-> None, raised |-> ""]
      ELSE LET s == list_sort(c.offers,
                       IF spot THEN "spot_price_per_hour" ELSE "price_per_hour")
               r == list_first(s)
           IN  [offers |-> c.offers, aliased |-> c.aliased, sorted |-> s,
                value |-> r.value, raised |-> r.raised]

\* The rule table re-declared inside DatacrunchAdapter.get_available_gpu_types.
patterns ==
  << [group |-> <<"B","3","0","0">>, rest |-> <<WS>> \o <<"S","X","M","6">>],
     [group |-> <<"B","2","0","0">>, rest |-> <<WS>> \o <<"S","X","M","6">>],
     [group |-> <<"H","2","0","0">>, rest |-> <<WS>> \o <<"S","X","M","5">>],
     [group |-> <<"H","1","0","0">>, rest |-> <<WS>> \o <<"S","X","M","5">>],
     [group |-> <<"A","1","0","0">>, rest |-> <<WS>> \o <<"S","X","M","4">>],
     [group |-> <<"R","T","X">> \o <<WS>> \o <<"P","R","O">>, rest |-> <<WS>> \o <<"6","0","0","0">>],
     [group |-> <<"R","T","X">> \o <<WS>> \o <<"6","0","0","0">>, rest |-> <<WS>> \o <<"A","d","a">>],
     [group |-> <<"R","T","X">> \o <<WS>> \o <<"A","6","0","0","0">>, rest |-> <<>>],
     [group |-> <<"T","e","s","l","a">> \o <<WS>> \o <<"V","1","0","0">>, rest |-> <<>>],
     [group |-> <<"L","4","0","S">>, rest |-> <<>>] >>

\* The labels appended to a list in snapshot order: no set, no sort.
RECURSIVE get_available_gpu_types_listed(_)
get_available_gpu_types_listed(instance_types) ==
  IF instance_types = <<>> THEN <<>>
  ELSE LET itype == Head(instance_types)
           d == dict_get(itype.gpu.description, <<>>)
           m == first_match(patterns, d)
       IN  (IF d # <<>> /\ dict_get(itype.gpu.number_of_gpus, 0) > 0 /\ m # None
            THEN m ELSE <<>>)
           \o get_available_gpu_types_listed(Tail(instance_types))

\* The labels of every described offer, whatever its number_of_gpus.
get_available_gpu_types_any_count(instance_types) ==
  sorted({ first_match(patterns, dict_get(instance_types[i].gpu.description, <<>>))[1] :
             i \in { k \in 1..Len(instance_types) :
                       first_match(patterns,
                         dict_get(instance_types[k].gpu.description, <<>>)) # None } })

\* DatacrunchAdapter.get_available_gpu_types
get_available_gpu_types(instance_types) ==
  LET its == get_instance_types(instance_types)
      Counted(itype) ==
        /\ dict_get(itype.gpu.description, <<>>) # <<>>
        /\ dict_get(itype.gpu.number_of_gpus, 0) > 0
      gpu_types ==
        { first_match(patterns, dict_get(its[i].gpu.description, <<>>))[1] :
            i \in { k \in 1..Len(its) :
                      /\ Counted(its[k])
                      /\ first_match(patterns,
                                     dict_get(its[k].gpu.description, <<>>)) # None } }
  IN  sorted(gpu_types)

(***************************************************************************)
(* The SDK call inside the queries                                         *)
(***************************************************************************)
\* client.instance_types.get(): the SDK's list, or the error the SDK raises.
sdk_get(list, error) ==
  IF error = None THEN [value |-> list, raised |-> ""]
  ELSE [value |-> <<>>, raised |-> error[1]]

\* The error caught and an empty result handed back in its place.
propagate_swallowed(fetched, outcome) ==
  IF fetched.raised # "" THEN [value |-> <<>>, raised |-> ""] ELSE outcome

\* No query method of the adapter or of the service has a try/except: an
\* error of the fetch ends the call and reaches the caller as it was raised;
\* otherwise the outcome is the query's own.
propagate(fetched, outcome) ==
  IF fetched.raised # "" THEN [value |-> None, raised |-> fetched.raised]
  ELSE outcome

\* The number of calls of client.instance_types.get() after a query that
\* started with n of them: every query method starts with one
\* self.get_instance_types(), directly or through the method it picks.
calls_get_instance_types(n) == n + 1
calls_get_spot_instance_types(n) == calls_get_instance_types(n)
calls_filter_by_gpu_type(n) == calls_get_instance_types(n)
calls_get_available_gpu_types(n) == calls_get_instance_types(n)

\* The whole list fetched first, then the method for the label or for spot.
calls_get_cheapest_offer_prefetching(n, gpu_type, spot) ==
  IF truthy(gpu_type) THEN calls_filter_by_gpu_type(calls_get_instance_types(n))
  ELSE IF spot THEN calls_get_spot_instance_types(calls_get_instance_types(n))
  ELSE calls_get_instance_types(n)

calls_get_cheapest_offer(n, gpu_type, spot) ==
  IF truthy(gpu_type) THEN calls_filter_by_gpu_type(n)
  ELSE IF spot THEN calls_get_spot_instance_types(n)
  ELSE calls_get_instance_types(n)

(***************************************************************************)
(* InstanceSelectionService: each method hands the call to the adapter     *)
(***************************************************************************)
list_all_offers(instance_types) == get_instance_types(instance_types)
list_spot_offers(instance_types) == get_spot_instance_types(instance_types)

(***************************************************************************)
(* format_gpu_display                                                      *)
(***************************************************************************)
\* str(n) of a non-negative int, as the f-string formats gpu_count.
RECURSIVE int_str(_)
int_str(n) ==
  LET digits == <<"0","1","2","3","4","5","6","7","8","9">>
  IN  IF n < 10 THEN <<digits[n + 1]>>
      ELSE int_str(n \div 10) \o <<digits[(n % 10) + 1]>>

\* The count prefix written for every GPU offer, a single GPU included.
format_gpu_display_always_counted(gpu_description, gpu_count) ==
  IF ~truthy(gpu_description) \/ gpu_count = 0 THEN <<"C","P","U"," ","O","n","l","y">>
  ELSE LET gpu_type == extract_gpu_type(gpu_description).value
       IN  IF ~truthy(gpu_type) THEN <<"U","n","k","n","o","w","n">>
           ELSE int_str(gpu_count) \o <<"x">> \o gpu_type[1]

\* format_gpu_display(gpu_description, gpu_count)
format_gpu_display(gpu_description, gpu_count) ==
  IF ~truthy(gpu_description) \/ gpu_count = 0 THEN <<"C","P","U"," ","O","n","l","y">>
  ELSE LET gpu_type == extract_gpu_type(gpu_description).value
       IN  IF ~truthy(gpu_type) THEN <<"U","n","k","n","o","w","n">>
           ELSE IF gpu_count > 1 THEN int_str(gpu_count) \o <<"x">> \o gpu_type[1]
           ELSE gpu_type[1]

(***************************************************************************)
(* DatacrunchAdapter.__init__                                              *)
(***************************************************************************)
\* The environment asked first, the argument used only when it has nothing.
or_getenv_env_first(given, from_env) ==
  IF truthy(from_env) THEN [value |-> from_env, consulted |-> TRUE]
  ELSE [value |-> given, consulted |-> TRUE]

\* a or os.getenv(name): [value, consulted], consulted saying whether the
\* environment was read.
or_getenv(given, from_env) ==
  IF truthy(given) THEN [value |-> given, consulted |-> FALSE]
  ELSE [value |-> from_env, consulted |-> TRUE]

\* The adapter object before __init__ has run.
NoAdapter ==
  [client_id |-> None, client_secret |-> None, consulted |-> {}, clients |-> <<>>]

\* __init__ that only tests the client id before it creates the client.
adapter_init_id_only(client_id, client_secret, env) ==
  LET id == or_getenv(client_id, env.DATACRUNCH_CLIENT_ID)
      secret == or_getenv(client_secret, env.DATACRUNCH_CLIENT_SECRET)
      consulted ==
        (IF id.consulted THEN {"DATACRUNCH_CLIENT_ID"} ELSE {})
          \cup (IF secret.consulted THEN {"DATACRUNCH_CLIENT_SECRET"} ELSE {})
  IN  [ adapter |-> [client_id |-> id.value, client_secret |-> secret.value,
                     consulted |-> consulted,
                     clients |-> IF ~truthy(id.value) THEN <<>>
                                 ELSE << <<id.value, secret.value>> >>],
        raised |-> IF ~truthy(id.value) THEN "ValueError" ELSE "" ]

\* DatacrunchAdapter.__init__: the adapter's fields after the call (clients
\* lists the argument pairs DataCrunchClient was created with) and the
\* exception raised; ValueError carries "Datacrunch credentials not found".
adapter_init(client_id, client_secret, env) ==
  LET id == or_getenv(client_id, env.DATACRUNCH_CLIENT_ID)
      secret == or_getenv(client_secret, env.DATACRUNCH_CLIENT_SECRET)
      consulted ==
        (IF id.consulted THEN {"DATACRUNCH_CLIENT_ID"} ELSE {})
          \cup (IF secret.consulted THEN {"DATACRUNCH_CLIENT_SECRET"} ELSE {})
      missing == ~truthy(id.value) \/ ~truthy(secret.value)
  IN  [ adapter |-> [client_id |-> id.value, client_secret |-> secret.value,
                     consulted |-> consulted,
                     clients |-> IF missing THEN <<>>
                                 ELSE << <<id.value, secret.value>> >>],
        raised |-> IF missing THEN "ValueError" ELSE "" ]

(***************************************************************************)
(* get_available_gpu_types_from_instances (utils/gpu.py)                   *)
(***************************************************************************)
\* The labels of every described offer, whatever its number_of_gpus.
get_available_gpu_types_from_instances_uncounted(instance_types) ==
  sorted({ extract_gpu_type(instance_types[i].gpu.description).value[1] :
             i \in { k \in 1..Len(instance_types) :
                       truthy(extract_gpu_type(
                                instance_types[k].gpu.description).value) } })

\* get_available_gpu_types_from_instances(instance_types)
get_available_gpu_types_from_instances(instance_types) ==
  LET gpu_description(itype) == dict_get(itype.gpu.description, <<>>)
      Labelled(itype) ==
        /\ gpu_description(itype) # <<>>
        /\ dict_get(itype.gpu.number_of_gpus, 0) > 0
        /\ truthy(extract_gpu_type(Some(gpu_description(itype))).value)
      gpu_types ==
        { extract_gpu_type(Some(gpu_description(instance_types[i]))).value[1] :
            i \in { k \in 1..Len(instance_types) : Labelled(instance_types[k]) } }
  IN  sorted(gpu_types)

(***************************************************************************)
(* list_offers (prepare/offers.py)                                         *)
(***************************************************************************)
\* One query of the service, as list_offers and the CLI record it.
Query(name, gpu_type, spot) == [name |-> name, gpu_type |-> gpu_type, spot |-> spot]

\* The label tested before cheapest_only.
list_offers_label_first(instance_types, gpu_type, spot_only, cheapest_only) ==
  IF truthy(gpu_type)
  THEN [queries |-> <<Query("filter_by_gpu_type", gpu_type, FALSE)>>,
        value |-> filter_by_gpu_type(instance_types, gpu_type[1]),
        after |-> instance_types]
  ELSE IF cheapest_only
  THEN LET r == get_cheapest_offer(instance_types, gpu_type, spot_only)
       IN  [queries |-> <<Query("get_cheapest_offer", gpu_type, spot_only)>>,
            value |-> IF r.value # None THEN <<r.value[1]>> ELSE <<>>,
            after |-> IF r.aliased THEN r.sorted ELSE instance_types]
  ELSE IF spot_only
  THEN [queries |-> <<Query("list_spot_offers", None, FALSE)>>,
        value |-> list_spot_offers(instance_types),
        after |-> instance_types]
  ELSE [queries |-> <<Query("list_all_offers", None, FALSE)>>,
        value |-> list_all_offers(instance_types),
        after |-> instance_types]

\* list_offers(gpu_type, spot_only, cheapest_only): the queries it makes of
\* the service, the list it returns, and the SDK's list after the call.
list_offers(instance_types, gpu_type, spot_only, cheapest_only) ==
  IF cheapest_only
  THEN LET r == get_cheapest_offer(instance_types, gpu_type, spot_only)
       IN  [queries |-> <<Query("get_cheapest_offer", gpu_type, spot_only)>>,
            value |-> IF r.value # None THEN <<r.value[1]>> ELSE <<>>,
            after |-> IF r.aliased THEN r.sorted ELSE instance_types]
  ELSE IF truthy(gpu_type)
  THEN [queries |-> <<Query("filter_by_gpu_type", gpu_type, FALSE)>>,
        value |-> filter_by_gpu_type(instance_types, gpu_type[1]),
        after |-> instance_types]
  ELSE IF spot_only
  THEN [queries |-> <<Query("list_spot_offers", None, FALSE)>>,
        value |-> list_spot_offers(instance_types),
        after |-> instance_types]
  ELSE [queries |-> <<Query("list_all_offers", None, FALSE)>>,
        value |-> list_all_offers(instance_types),
        after |-> instance_types]

(***************************************************************************)
(* The tables of the CLI (cli/offers.py, cli/interactive.py)               *)
(***************************************************************************)
\* The rule table re-declared inside the list command.
list_patterns ==
  << [group |-> <<"B","3","0","0">>, rest |-> <<WS>> \o <<"S","X","M","6">>],
     [group |-> <<"B","2","0","0">>, rest |-> <<WS>> \o <<"S","X","M","6">>],
     [group |-> <<"H","2","0","0">>, rest |-> <<WS>> \o <<"S","X","M","5">>],
     [group |-> <<"H","1","0","0">>, rest |-> <<WS>> \o <<"S","X","M","5">>],
     [group |-> <<"A","1","0","0">>, rest |-> <<WS>> \o <<"S","X","M","4">>],
     [group |-> <<"R","T","X">> \o <<WS>> \o <<"P","R","O">>, rest |-> <<WS>> \o <<"6","0","0","0">>],
     [group |-> <<"R","T","X">> \o <<WS>> \o <<"6","0","0","0">>, rest |-> <<WS>> \o <<"A","d","a">>],
     [group |-> <<"R","T","X">> \o <<WS>> \o <<"A","6","0","0","0">>, rest |-> <<>>],
     [group |-> <<"T","e","s","l","a">> \o <<WS>> \o <<"V","1","0","0">>, rest |-> <<>>],
     [group |-> <<"L","4","0","S">>, rest |-> <<>>] >>

\* The rule table re-declared inside the wizard.
run_patterns ==
  << [group |-> <<"B","3","0","0">>, rest |-> <<WS>> \o <<"S","X","M","6">>],
     [group |-> <<"B","2","0","0">>, rest |-> <<WS>> \o <<"S","X","M","6">>],
     [group |-> <<"H","2","0","0">>, rest |-> <<WS>> \o <<"S","X","M","5">>],
     [group |-> <<"H","1","0","0">>, rest |-> <<WS>> \o <<"S","X","M","5">>],
     [group |-> <<"A","1","0","0">>, rest |-> <<WS>> \o <<"S","X","M","4">>],
     [group |-> <<"R","T","X">> \o <<WS>> \o <<"P","R","O">>, rest |-> <<WS>> \o <<"6","0","0","0">>],
     [group |-> <<"R","T","X">> \o <<WS>> \o <<"6","0","0","0">>, rest |-> <<WS>> \o <<"A","d","a">>],
     [group |-> <<"R","T","X">> \o <<WS>> \o <<"A","6","0","0","0">>, rest |-> <<>>],
     [group |-> <<"T","e","s","l","a">> \o <<WS>> \o <<"V","1","0","0">>, rest |-> <<>>],
     [group |-> <<"L","4","0","S">>, rest |-> <<>>] >>

\* The GPU column as both tables compute it inline, over their own rule
\* table: "CPU Only" without description or count, else the label found or
\* "Unknown", with the count in front when it is above one.
gpu_display(table_patterns, offer) ==
  LET gpu_description == dict_get(offer.gpu.description, <<>>)
      count == dict_get(offer.gpu.number_of_gpus, 0)
  IN  IF gpu_description # <<>> /\ count > 0
      THEN LET match == first_match(table_patterns, gpu_description)
               label == IF match # None THEN match[1] ELSE <<"U","n","k","n","o","w","n">>
           IN  IF count > 1 THEN int_str(count) \o <<"x">> \o label ELSE label
      ELSE <<"C","P","U"," ","O","n","l","y">>

\* savings = (price - spot_price) / price * 100, kept as an exact fraction;
\* the division raises ZeroDivisionError on a price of 0.
savings(offer) ==
  IF offer.price_per_hour = 0
  THEN [value |-> None, raised |-> "ZeroDivisionError"]
  ELSE [value |-> Some([num |-> (offer.price_per_hour - offer.spot_price_per_hour) * 100,
                        den |-> offer.price_per_hour]),
        raised |-> ""]

\* The loop that adds one row per offer; an exception in a row ends it.
\* A row keeps the instance type, the GPU column and the savings column
\* (None where the table has none).
RECURSIVE add_rows(_, _, _)
add_rows(table_patterns, offers_shown, with_savings) ==
  IF offers_shown = <<>> THEN [rows |-> <<>>, raised |-> ""]
  ELSE LET offer == Head(offers_shown)
           s == IF with_savings THEN savings(offer)
                ELSE [value |-> None, raised |-> ""]
           row == [instance_type |-> offer.instance_type,
                   gpu_display |-> gpu_display(table_patterns, offer),
                   savings |-> s.value]
       IN  IF s.raised # "" THEN [rows |-> <<>>, raised |-> s.raised]
           ELSE LET rest == add_rows(table_patterns, Tail(offers_shown), with_savings)
                IN  IF rest.raised # "" THEN rest
                    ELSE [rows |-> <<row>> \o rest.rows, raised |-> ""]

\* offers[:n] for n >= 0.
list_slice(s, n) == SubSeq(s, 1, IF n < Len(s) THEN n ELSE Len(s))

\* `except Exception: ... raise typer.Exit(1)`: an exception becomes exit
\* status 1; None stands for a normal return.
exit_status(raised_in_try) == IF raised_in_try # "" THEN Some(1) ELSE None

\* The list command of the CLI: the queries it makes, the rows of the table
\* it prints (none when it prints a message instead or fails), its exit
\* status and the SDK's list after the call.
offers_list(instance_types, gpu_type, spot_only, cheapest, limit) ==
  LET c == get_cheapest_offer(instance_types, gpu_type, spot_only)
      first ==
        IF cheapest
        THEN [query |-> Query("get_cheapest_offer", gpu_type, spot_only),
              value |-> IF c.value # None THEN <<c.value[1]>> ELSE <<>>,
              after |-> IF c.aliased THEN c.sorted ELSE instance_types]
        ELSE IF truthy(gpu_type)
        THEN [query |-> Query("filter_by_gpu_type", gpu_type, FALSE),
              value |-> filter_by_gpu_type(instance_types, gpu_type[1]),
              after |-> instance_types]
        ELSE IF spot_only
        THEN [query |-> Query("list_spot_offers", None, FALSE),
              value |-> list_spot_offers(instance_types),
              after |-> instance_types]
        ELSE [query |-> Query("list_all_offers", None, FALSE),
              value |-> list_all_offers(instance_types),
              after |-> instance_types]
      shown == list_slice(first.value, limit)
      drawn == add_rows(list_patterns, shown, ~spot_only)
  IN  IF shown = <<>>
      THEN [queries |-> IF truthy(gpu_type)
                        THEN <<first.query, Query("get_available_gpu_types", None, FALSE)>>
                        ELSE <<first.query>>,
            offers |-> shown, table |-> <<>>, raised |-> "",
            exit_code |-> exit_status(""), after |-> first.after]
      ELSE [queries |-> <<first.query>>,
            offers |-> shown, table |-> drawn.rows, raised |-> drawn.raised,
            exit_code |-> exit_status(drawn.raised), after |-> first.after]

(***************************************************************************)
(* The wizard's conversions (cli/interactive.py)                           *)
(***************************************************************************)
LowerChar(c) ==
  IF \E i \in 1..Len(UpperCase) : UpperCase[i] = c
  THEN LowerCase[CHOOSE i \in 1..Len(UpperCase) : UpperCase[i] = c]
  ELSE c

\* str.lower on ASCII text.
str_lower(s) == [i \in 1..Len(s) |-> LowerChar(s[i])]

Digits == <<"0","1","2","3","4","5","6","7","8","9">>

\* int() of a text of digits.
RECURSIVE digits_value(_)
digits_value(text) ==
  IF text = <<>> THEN 0
  ELSE digits_value(SubSeq(text, 1, Len(text) - 1)) * 10
       + (CHOOSE d \in 0..9 : Digits[d + 1] = text[Len(text)])

RECURSIVE power_of_ten(_)
power_of_ten(n) == IF n = 0 THEN 1 ELSE 10 * power_of_ten(n - 1)

\* float(text) for the spellings a budget is typed in: digits with at most
\* one point and at least one digit give the exact value num/den; a text
\* with any other character, or without a digit, raises ValueError.
float(text) ==
  LET points == { i \in 1..Len(text) : text[i] = "." }
      plain == \A i \in 1..Len(text) :
                 text[i] = "." \/ \E d \in 1..Len(Digits) : Digits[d] = text[i]
      whole == SelectSeq(text, LAMBDA ch : ch # ".")
  IN  IF plain /\ Cardinality(points) <= 1 /\ whole # <<>>
      THEN [value |-> [num |-> digits_value(whole),
                       den |-> IF points = {} THEN 1
                               ELSE power_of_ten(Len(text) - (CHOOSE p \in points : TRUE))],
            raised |-> ""]
      ELSE [value |-> [num |-> 0, den |-> 1], raised |-> "ValueError"]

\* Every offer passes, whatever the budget.
within_budget_unchecked(offer, budget_limit) == TRUE

\* offer.price_per_hour <= ctx.budget_limit
within_budget(offer, budget_limit) ==
  offer.price_per_hour * budget_limit.den <= budget_limit.num

\* What get_arrow_key_input can hand back over options: "" for no options,
\* else one of them.
arrow_key_answers(options_given) ==
  IF options_given = <<>> THEN {<<>>}
  ELSE { options_given[i] : i \in 1..Len(options_given) }

(***************************************************************************)
(* Inputs                                                                  *)
(***************************************************************************)
Offer(name, price, spot_price, description, number_of_gpus) ==
  [ instance_type |-> name,
    price_per_hour |-> price,
    spot_price_per_hour |-> spot_price,
    gpu |-> [description |-> description, number_of_gpus |-> number_of_gpus] ]

\* The offers a snapshot is drawn from: labelled GPUs (one label twice), a
\* GPU no rule matches, a CPU-only offer whose gpu dict has no description,
\* a description on an offer whose gpu dict has no number_of_gpus; equal
\* prices and equal spot prices occur, and spot price 0 (no spot).
OfferPool ==
  { Offer("1A100.40S.22V", 2, 1, Some(<<"1","x"," ","A","1","0","0"," ","S","X","M","4"," ","4","0","G","B">>), Some(1)),
    Offer("8A100.PCIE", 2, 0, Some(<<"8","x"," ","a","1","0","0"," ","P","C","I","e">>), Some(8)),
    Offer("1A100.22V", 3, 2, Some(<<"1","x"," ","A","1","0","0"," ","S","X","M","4"," ","8","0","G","B">>), Some(1)),
    Offer("1H100.80S.30V", 3, 1, Some(<<"1","x"," ","H","1","0","0"," ","S","X","M","5"," ","8","0","G","B">>), Some(1)),
    Offer("2RTXPRO6000", 1, 1, Some(<<"2","x"," ","R","T","X"," ","P","R","O"," ","6","0","0","0"," ","9","6","G","B">>), Some(2)),
    Offer("CPU.4V.16G", 0, 0, None, Some(0)),
    Offer("L40S.0", 1, 0, Some(<<"1","x"," ","L","4","0","S"," ","4","8","G","B">>), None) }

\* Snapshots: sequences of distinct offers, in any order.
Snapshots ==
  { s \in UNION { [1..n -> OfferPool] : n \in 0..MaxOffers } :
      \A i, j \in 1..Len(s) : i # j => s[i] # s[j] }

\* gpu_type arguments (None: not passed).
GpuTypeArgs ==
  { None,
    Some(<<>>),
    Some(<<"A","1","0","0">>),
    Some(<<"a","1","0","0">>),
    Some(<<"R","t","x">>),
    Some(<<"h","1","0","0"," ","s","x","m","5">>),
    Some(<<"R","T","X","4","0","9","0">>) }

\* Arguments of extract_gpu_type.
Descriptions ==
  { None,
    Some(<<>>),
    Some(<<"N","o"," ","G","P","U">>),
    Some(<<"1","x"," ","A","1","0","0"," ","S","X","M","4"," ","4","0","G","B">>),
    Some(<<"1","x"," ","A","1","0","0"," ","P","C","I","e"," ","4","0","G","B">>),
    Some(<<"1","x"," ","a","1","0","0"," ","s","x","m","4"," ","4","0","g","b">>),
    Some(<<"1","x"," ","H","1","0","0"," ","S","X","M","5"," ","8","0","G","B">>),
    Some(<<"1","x"," ","R","T","X"," ","P","R","O"," ","6","0","0","0"," ","9","6","G","B">>),
    Some(<<"1","x"," ","R","T","X"," ","6","0","0","0"," ","A","d","a"," ","4","8","G","B">>),
    Some(<<"1","x"," ","R","T","X"," ","A","6","0","0","0"," ","4","8","G","B">>),
    Some(<<"1","x"," ","T","e","s","l","a"," ","V","1","0","0"," ","1","6","G","B">>),
    Some(<<"R","T","X","\t","P","R","O"," "," ","6","0","0","0">>),
    Some(<<"L","4","0","S"," ","B","3","0","0"," ","S","X","M","6">>),
    Some(<<"A","1","0","0"," ","S","X","M","4"," ","H","1","0","0"," ","S","X","M","5">>) }

(***************************************************************************)
(* Inputs of format_gpu_display and of DatacrunchAdapter.__init__          *)
(***************************************************************************)
GpuCounts == {0, 1, 2, 3, 4, 8, 10, 16}

\* Values of the client_id and client_secret arguments (None: not passed).
ClientIdArgs == { None, Some(<<>>), Some(<<"t","e","s","t","_","i","d">>), Some(<<"o","t","h","e","r","_","i","d">>) }
ClientSecretArgs == { None, Some(<<>>), Some(<<"t","e","s","t","_","s","e","c","r","e","t">>), Some(<<"o","t","h","e","r","_","s","e","c","r","e","t">>) }

\* os.environ: each variable unset (None), set to "" or set to a value.
Environments ==
  [ DATACRUNCH_CLIENT_ID : { None, Some(<<>>), Some(<<"e","n","v","_","i","d">>) },
    DATACRUNCH_CLIENT_SECRET : { None, Some(<<>>), Some(<<"e","n","v","_","s","e","c","r","e","t">>) } ]

\* Errors client.instance_types.get() raises.
SdkErrors == { Some("APIException"), Some("ConnectionError") }

(***************************************************************************)
(* Inputs of list_offers, of the CLI and of the wizard                     *)
(***************************************************************************)
\* --limit values; 10 is the default.
Limits == {1, 10}

\* The rows the wizard's table shows: offers[:5].
TableRows == 5

\* Seven offers of one label, six of them at a price of 2 or less: more
\* than the wizard's table holds, with or without that budget.
Fleet ==
  << Offer("A100.f1", 3, 1, Some(<<"1","x"," ","A","1","0","0"," ","S","X","M","4"," ","4","0","G","B">>), Some(1)),
     Offer("A100.f2", 1, 1, Some(<<"1","x"," ","A","1","0","0"," ","S","X","M","4"," ","4","0","G","B">>), Some(1)),
     Offer("A100.f3", 2, 1, Some(<<"1","x"," ","A","1","0","0"," ","S","X","M","4"," ","4","0","G","B">>), Some(1)),
     Offer("A100.f4", 2, 2, Some(<<"1","x"," ","A","1","0","0"," ","S","X","M","4"," ","8","0","G","B">>), Some(1)),
     Offer("A100.f5", 1, 0, Some(<<"1","x"," ","A","1","0","0"," ","S","X","M","4"," ","8","0","G","B">>), Some(1)),
     Offer("A100.f6", 2, 2, Some(<<"1","x"," ","A","1","0","0"," ","S","X","M","4"," ","8","0","G","B">>), Some(1)),
     Offer("A100.f7", 1, 1, Some(<<"1","x"," ","A","1","0","0"," ","S","X","M","4"," ","8","0","G","B">>), Some(1)) >>

\* The snapshots the wizard runs over.
WizardSnapshots == Snapshots \cup {Fleet}

\* Paths typed at the wizard's first prompt; the first is the default.
InputFiles == { <<"n","o","t","e","b","o","o","k",".","i","p","y","n","b">>, <<"j","o","b",".","p","y">> }

\* Budgets typed at the wizard's prompt; "1.00" is the default.
BudgetTexts == { <<"1",".","0","0">>, <<"2">>, <<"0",".","5","0">>, <<"0">>, <<"a","b","c">>, <<>> }

\* The option lists get_arrow_key_input is called with: the wizard's fixed
\* ones, and lists of GPU labels as get_available_gpu_types returns them.
OptionLists ==
  { <<>>, <<<<"y","e","s">>, <<"n","o">>>>, <<<<"n","o">>, <<"y","e","s">>>>, <<<<"s","p","o","t">>, <<"o","n","-","d","e","m","a","n","d">>>> }
  \cup { sorted(L) : L \in (SUBSET { <<"A","1","0","0">>, <<"H","1","0","0">>, <<"R","T","X"," ","P","R","O">>, <<"L","4","0","S">> }) \ {{}} }

\* What inquirer.prompt does: it returns the answers, returns None when the
\* user cancels, or fails with an exception.
InquirerOutcomes(options_given) ==
  { [answers |-> Some(options_given[i]), raised |-> ""] : i \in 1..Len(options_given) }
  \cup { [answers |-> None, raised |-> ""],
         [answers |-> None, raised |-> "Exception"] }

(***************************************************************************)
(* State                                                                   *)
(***************************************************************************)
VARIABLES
  instance_types,   \* the list client.instance_types.get() returns
  same_list,        \* whether get() hands out one list object on every call
                    \* (the test double) or a fresh list (the HTTP client)
  sdk_error,        \* None, or the error client.instance_types.get() raises
  environ,          \* os.environ: the two credential variables
  adapter,          \* the DatacrunchAdapter object's fields
  pc,               \* "idle", or "done" when a call has returned
  op,               \* the call that returned
  gpu_type,         \* its gpu_type argument
  spot,             \* its spot argument
  gpu_description,  \* its gpu_description argument
  gpu_count,        \* its gpu_count argument
  credentials,      \* its client_id and client_secret arguments
  seen,             \* the list the call fetched, as it was fetched
  fetches,          \* its calls of client.instance_types.get()
  offers,           \* get_cheapest_offer's candidates before its sort
  result,           \* the value returned
  raised,           \* the exception raised, "" for none
  cheapest_only,    \* list_offers / list: the cheapest_only (--cheapest) flag
  limit,            \* list: the --limit option
  queries,          \* the queries made of the service, in order
  table,            \* the rows of the table printed
  exit_code,        \* None, or the status of the typer.Exit that ended it
  options,          \* get_arrow_key_input: its options argument
  tty,              \* sys.stdin.isatty()
  prompts,          \* the prompts presented: "inquirer", "numbered"
  caught,           \* the exception caught inside get_arrow_key_input
  ctx,              \* the wizard's InteractiveContext
  gpu_types         \* the wizard's gpu_types

vars == <<instance_types, same_list, sdk_error, environ, adapter, pc, op,
          gpu_type, spot, gpu_description, gpu_count, credentials, seen,
          fetches, offers, result, raised, cheapest_only, limit, queries,
          table, exit_code, options, tty, prompts, caught, ctx, gpu_types>>

\* What no catalog query touches.
setup == <<same_list, sdk_error, environ, adapter, credentials>>

\* What only list_offers, the CLI and the wizard touch.
session == <<cheapest_only, limit, queries, table, exit_code, options, tty,
             prompts, caught, ctx, gpu_types>>

NoCredentials == [client_id |-> None, client_secret |-> None]

\* InteractiveContext.__init__
NoContext ==
  [input_file |-> None, selected_instance |-> None,
   gpu_requirements |-> None, budget_limit |-> None]

\* No call has been made, or the last one has been dropped.
NoCall ==
  /\ pc = "idle"
  /\ op = "none"
  /\ gpu_type = None
  /\ spot = FALSE
  /\ gpu_description = None
  /\ gpu_count = 0
  /\ seen = <<>>
  /\ fetches = 0
  /\ offers = <<>>
  /\ result = <<>>
  /\ raised = ""
  /\ cheapest_only = FALSE
  /\ limit = 0
  /\ queries = <<>>
  /\ table = <<>>
  /\ exit_code = None
  /\ options = <<>>
  /\ tty = FALSE
  /\ prompts = <<>>
  /\ caught = ""
  /\ ctx = NoContext
  /\ gpu_types = <<>>

\* The call record is cleared.
ClearCall ==
  /\ pc' = "idle"
  /\ op' = "none"
  /\ gpu_type' = None
  /\ spot' = FALSE
  /\ gpu_description' = None
  /\ gpu_count' = 0
  /\ seen' = <<>>
  /\ fetches' = 0
  /\ offers' = <<>>
  /\ result' = <<>>
  /\ raised' = ""
  /\ cheapest_only' = FALSE
  /\ limit' = 0
  /\ queries' = <<>>
  /\ table' = <<>>
  /\ exit_code' = None
  /\ options' = <<>>
  /\ tty' = FALSE
  /\ prompts' = <<>>
  /\ caught' = ""
  /\ ctx' = NoContext
  /\ gpu_types' = <<>>

\* An adapter built from explicit credentials over a client that answers.
Init ==
  /\ instance_types \in Snapshots
  /\ same_list \in BOOLEAN
  /\ sdk_error = None
  /\ environ = [DATACRUNCH_CLIENT_ID |-> None, DATACRUNCH_CLIENT_SECRET |-> None]
  /\ credentials = [client_id |-> Some(<<"t","e","s","t","_","i","d">>), client_secret |-> Some(<<"t","e","s","t","_","s","e","c","r","e","t">>)]
  /\ adapter = adapter_init(credentials.client_id, credentials.client_secret,
                            environ).adapter
  /\ NoCall

\* A call that takes no argument and leaves the SDK's list alone.
Plain(name, calls, value) ==
  LET fetched == sdk_get(instance_types, sdk_error)
      out == propagate(fetched, [value |-> value, raised |-> ""])
  IN  /\ pc = "idle"
      /\ pc' = "done"
      /\ op' = name
      /\ seen' = fetched.value
      /\ fetches' = calls
      /\ result' = out.value
      /\ raised' = out.raised
      /\ offers' = <<>>
      /\ UNCHANGED <<instance_types, setup, gpu_type, spot, gpu_description, gpu_count,
                     session>>

ListAllOffers ==
  Plain("list_all_offers", calls_get_instance_types(0),
        list_all_offers(instance_types))

ListSpotOffers ==
  Plain("list_spot_offers", calls_get_spot_instance_types(0),
        list_spot_offers(instance_types))

GetAvailableGpuTypes ==
  Plain("get_available_gpu_types", calls_get_available_gpu_types(0),
        get_available_gpu_types(instance_types))

FilterByGpuType ==
  /\ pc = "idle"
  /\ \E g \in GpuTypeArgs \ {None} :
       LET fetched == sdk_get(instance_types, sdk_error)
           out == propagate(fetched,
                    [value |-> filter_by_gpu_type(instance_types, g[1]),
                     raised |-> ""])
       IN  /\ gpu_type' = g
           /\ seen' = fetched.value
           /\ result' = out.value
           /\ raised' = out.raised
  /\ pc' = "done"
  /\ op' = "filter_by_gpu_type"
  /\ fetches' = calls_filter_by_gpu_type(0)
  /\ offers' = <<>>
  /\ UNCHANGED <<instance_types, setup, spot, gpu_description, gpu_count, session>>

\* The in-place sort reorders the SDK's own list when the candidates are
\* that list and the client hands the same object out again.
GetCheapestOffer ==
  /\ pc = "idle"
  /\ \E g \in GpuTypeArgs, sp \in BOOLEAN :
       LET fetched == sdk_get(instance_types, sdk_error)
           r == get_cheapest_offer(instance_types, g, sp)
           out == propagate(fetched, [value |-> r.value, raised |-> r.raised])
       IN  /\ gpu_type' = g
           /\ spot' = sp
           /\ seen' = fetched.value
           /\ fetches' = calls_get_cheapest_offer(0, g, sp)
           /\ offers' = IF fetched.raised # "" THEN <<>> ELSE r.offers
           /\ result' = out.value
           /\ raised' = out.raised
           /\ instance_types' =
                IF fetched.raised = "" /\ r.aliased /\ same_list
                THEN r.sorted ELSE instance_types
  /\ pc' = "done"
  /\ op' = "get_cheapest_offer"
  /\ UNCHANGED <<setup, gpu_description, gpu_count, session>>

ExtractGpuType ==
  /\ pc = "idle"
  /\ \E d \in Descriptions :
       LET r == extract_gpu_type(d)
       IN  /\ gpu_description' = d
           /\ result' = r.value
           /\ raised' = r.raised
  /\ pc' = "done"
  /\ op' = "extract_gpu_type"
  /\ seen' = <<>>
  /\ offers' = <<>>
  /\ UNCHANGED <<instance_types, setup, gpu_type, spot, gpu_count, fetches, session>>

\* The caller drops the result; the adapter keeps nothing between calls.
Return ==
  /\ pc = "done"
  /\ ClearCall
  /\ UNCHANGED <<instance_types, setup>>

Next ==
  \/ ListAllOffers
  \/ ListSpotOffers
  \/ FilterByGpuType
  \/ GetCheapestOffer
  \/ GetAvailableGpuTypes
  \/ ExtractGpuType
  \/ Return

Spec == Init /\ [][Next]_vars

(***************************************************************************)
(* The queries over a client whose fetch fails                             *)
(***************************************************************************)
InitFailing ==
  /\ instance_types \in { s \in Snapshots : Len(s) <= 1 }
  /\ same_list \in BOOLEAN
  /\ sdk_error \in SdkErrors
  /\ environ = [DATACRUNCH_CLIENT_ID |-> None, DATACRUNCH_CLIENT_SECRET |-> None]
  /\ credentials = [client_id |-> Some(<<"t","e","s","t","_","i","d">>), client_secret |-> Some(<<"t","e","s","t","_","s","e","c","r","e","t">>)]
  /\ adapter = adapter_init(credentials.client_id, credentials.client_secret,
                            environ).adapter
  /\ NoCall

SpecFailing == InitFailing /\ [][Next]_vars

(***************************************************************************)
(* format_gpu_display on its own                                           *)
(***************************************************************************)
InitDisplay ==
  /\ instance_types = <<>>
  /\ same_list = FALSE
  /\ sdk_error = None
  /\ environ = [DATACRUNCH_CLIENT_ID |-> None, DATACRUNCH_CLIENT_SECRET |-> None]
  /\ credentials = NoCredentials
  /\ adapter = NoAdapter
  /\ NoCall

FormatGpuDisplay ==
  /\ pc = "idle"
  /\ \E d \in Descriptions, n \in GpuCounts :
       /\ gpu_description' = d
       /\ gpu_count' = n
       /\ result' = format_gpu_display(d, n)
  /\ pc' = "done"
  /\ op' = "format_gpu_display"
  /\ raised' = ""
  /\ UNCHANGED <<instance_types, setup, gpu_type, spot, seen, fetches, offers,
                 session>>

NextDisplay == FormatGpuDisplay \/ Return

SpecDisplay == InitDisplay /\ [][NextDisplay]_vars

(***************************************************************************)
(* DatacrunchAdapter(client_id, client_secret)                             *)
(***************************************************************************)
InitConstruct ==
  /\ instance_types = <<>>
  /\ same_list = FALSE
  /\ sdk_error = None
  /\ environ \in Environments
  /\ credentials = NoCredentials
  /\ adapter = NoAdapter
  /\ NoCall

Construct ==
  /\ pc = "idle"
  /\ \E id \in ClientIdArgs, secret \in ClientSecretArgs :
       LET r == adapter_init(id, secret, environ)
       IN  /\ credentials' = [client_id |-> id, client_secret |-> secret]
           /\ adapter' = r.adapter
           /\ raised' = r.raised
  /\ pc' = "done"
  /\ op' = "__init__"
  /\ UNCHANGED <<instance_types, same_list, sdk_error, environ, gpu_type, spot,
                 gpu_description, gpu_count, seen, fetches, offers, result,
                 session>>

\* The object is dropped; the next construction starts from nothing.
Discard ==
  /\ pc = "done"
  /\ ClearCall
  /\ credentials' = NoCredentials
  /\ adapter' = NoAdapter
  /\ UNCHANGED <<instance_types, same_list, sdk_error, environ>>

NextConstruct == Construct \/ Discard

SpecConstruct == InitConstruct /\ [][NextConstruct]_vars

(***************************************************************************)
(* list_offers and the CLI's list command                                  *)
(***************************************************************************)
InitList ==
  /\ instance_types \in { s \in Snapshots : Len(s) < MaxOffers }
  /\ same_list \in BOOLEAN
  /\ sdk_error = None
  /\ environ = [DATACRUNCH_CLIENT_ID |-> None, DATACRUNCH_CLIENT_SECRET |-> None]
  /\ credentials = [client_id |-> Some(<<"t","e","s","t","_","i","d">>), client_secret |-> Some(<<"t","e","s","t","_","s","e","c","r","e","t">>)]
  /\ adapter = adapter_init(credentials.client_id, credentials.client_secret,
                            environ).adapter
  /\ NoCall

ListOffers ==
  /\ pc = "idle"
  /\ \E g \in GpuTypeArgs, sp \in BOOLEAN, ch \in BOOLEAN :
       LET r == list_offers(instance_types, g, sp, ch)
       IN  /\ gpu_type' = g
           /\ spot' = sp
           /\ cheapest_only' = ch
           /\ queries' = r.queries
           /\ result' = r.value
           /\ instance_types' = IF same_list THEN r.after ELSE instance_types
  /\ pc' = "done"
  /\ op' = "list_offers"
  /\ seen' = instance_types
  /\ UNCHANGED <<setup, gpu_description, gpu_count, fetches, offers, raised, limit,
                 table, exit_code, options, tty, prompts, caught, ctx, gpu_types>>

OffersList ==
  /\ pc = "idle"
  /\ \E g \in GpuTypeArgs, sp \in BOOLEAN, ch \in BOOLEAN, l \in Limits :
       LET r == offers_list(instance_types, g, sp, ch, l)
       IN  /\ gpu_type' = g
           /\ spot' = sp
           /\ cheapest_only' = ch
           /\ limit' = l
           /\ queries' = r.queries
           /\ offers' = r.offers
           /\ table' = r.table
           /\ raised' = r.raised
           /\ exit_code' = r.exit_code
           /\ instance_types' = IF same_list THEN r.after ELSE instance_types
  /\ pc' = "done"
  /\ op' = "list"
  /\ seen' = instance_types
  /\ UNCHANGED <<setup, gpu_description, gpu_count, fetches, result, options, tty,
                 prompts, caught, ctx, gpu_types>>

NextList == ListOffers \/ OffersList \/ Return

SpecList == InitList /\ [][NextList]_vars

(***************************************************************************)
(* get_arrow_key_input                                                     *)
(***************************************************************************)
InitPrompt ==
  /\ instance_types = <<>>
  /\ same_list = FALSE
  /\ sdk_error = None
  /\ environ = [DATACRUNCH_CLIENT_ID |-> None, DATACRUNCH_CLIENT_SECRET |-> None]
  /\ credentials = NoCredentials
  /\ adapter = NoAdapter
  /\ NoCall

\* What a step of get_arrow_key_input leaves alone.
prompt_frame ==
  <<instance_types, setup, gpu_type, spot, gpu_description, gpu_count, seen,
    fetches, offers, cheapest_only, limit, queries, table, ctx, gpu_types>>

\* The call up to its first prompt: no options return "" at once; off a
\* terminal the numbered prompt is presented, on one the inquirer prompt.
Ask ==
  /\ pc = "idle"
  /\ \E o \in OptionLists, t \in BOOLEAN :
       /\ options' = o
       /\ tty' = t
       /\ pc' = IF o = <<>> THEN "done" ELSE IF t THEN "inquirer" ELSE "numbered"
       /\ prompts' = IF o = <<>> THEN <<>>
                     ELSE IF t THEN <<"inquirer">> ELSE <<"numbered">>
  /\ op' = "get_arrow_key_input"
  /\ result' = <<>>
  /\ UNCHANGED <<prompt_frame, raised, exit_code, caught>>

\* inquirer.prompt has returned or failed. An answer is returned. For no
\* answer the try block raises typer.Exit(1); that, like a failure of
\* inquirer, is an Exception (click's Exit derives from RuntimeError), so
\* `except Exception` catches it and presents the numbered prompt.
InquirerAnswer ==
  /\ pc = "inquirer"
  /\ \E outcome \in InquirerOutcomes(options) :
       LET raised_in_try ==
             IF outcome.raised # "" THEN outcome.raised
             ELSE IF outcome.answers # None THEN "" ELSE "Exit"
       IN  IF raised_in_try = ""
           THEN /\ result' = outcome.answers[1]
                /\ pc' = "done"
                /\ UNCHANGED <<prompts, caught>>
           ELSE /\ caught' = raised_in_try
                /\ prompts' = Append(prompts, "numbered")
                /\ pc' = "numbered"
                /\ UNCHANGED result
  /\ UNCHANGED <<prompt_frame, op, options, tty, raised, exit_code>>

\* IntPrompt.ask over the numbers of the options.
NumberedAnswer ==
  /\ pc = "numbered"
  /\ \E choice \in 1..Len(options) : result' = options[choice]
  /\ pc' = "done"
  /\ UNCHANGED <<prompt_frame, op, options, tty, prompts, caught, raised, exit_code>>

NextPrompt == Ask \/ InquirerAnswer \/ NumberedAnswer \/ Return

SpecPrompt == InitPrompt /\ [][NextPrompt]_vars

(***************************************************************************)
(* The wizard: run                                                         *)
(***************************************************************************)
InitWizard ==
  /\ instance_types \in WizardSnapshots
  /\ same_list = FALSE
  /\ sdk_error = None
  /\ environ = [DATACRUNCH_CLIENT_ID |-> None, DATACRUNCH_CLIENT_SECRET |-> None]
  /\ credentials = [client_id |-> Some(<<"t","e","s","t","_","i","d">>), client_secret |-> Some(<<"t","e","s","t","_","s","e","c","r","e","t">>)]
  /\ adapter = adapter_init(credentials.client_id, credentials.client_secret,
                            environ).adapter
  /\ NoCall

\* What no step of the wizard touches.
run_frame ==
  <<instance_types, setup, gpu_type, spot, gpu_description, gpu_count, seen,
    fetches, cheapest_only, limit, options, tty, prompts, caught>>

\* `raise typer.Exit(1)` inside the try, or any exception there: the
\* handler at the end prints it and exits with status 1.
Fail(exception) ==
  /\ pc' = "done"
  /\ raised' = exception
  /\ exit_code' = Some(1)

\* The table of offers[:5] is drawn and the instance prompt presented; a
\* row that raises ends the run.
Draw(remaining) ==
  LET drawn == add_rows(run_patterns, list_slice(remaining, TableRows), TRUE)
  IN  IF drawn.raised # ""
      THEN Fail(drawn.raised) /\ table' = <<>>
      ELSE /\ table' = drawn.rows
           /\ pc' = "select_instance"
           /\ UNCHANGED <<raised, exit_code>>

\* `if not offers: ... raise typer.Exit(1)` after the candidates are found.
Candidates(found) ==
  /\ offers' = found
  /\ IF found = <<>> THEN Fail("Exit")
     ELSE pc' = "budget_choice" /\ UNCHANGED <<raised, exit_code>>

\* Step 1: the input file is asked for and the service built.
RunStart ==
  /\ pc = "idle"
  /\ \E input_file \in InputFiles : ctx' = [ctx EXCEPT !.input_file = Some(input_file)]
  /\ pc' = "gpu_choice"
  /\ op' = "run"
  /\ UNCHANGED <<run_frame, offers, result, raised, queries, table, exit_code,
                 gpu_types>>

\* "Do you need GPU acceleration?" is answered. On yes the labels are
\* fetched; with none, get_arrow_key_input returns "" without a prompt and
\* the run goes on to filter by it. On no the CPU-only offers are taken.
RunGpuChoice ==
  /\ pc = "gpu_choice"
  /\ \E gpu_choice \in arrow_key_answers(<<<<"y","e","s">>, <<"n","o">>>>) :
       IF str_lower(gpu_choice) = <<"y","e","s">>
       THEN LET labels == get_available_gpu_types(instance_types)
            IN  /\ gpu_types' = labels
                /\ IF labels = <<>>
                   THEN /\ ctx' = [ctx EXCEPT !.gpu_requirements = Some(<<>>)]
                        /\ queries' = queries \o <<Query("get_available_gpu_types", None, FALSE),
                                                   Query("filter_by_gpu_type", Some(<<>>), FALSE)>>
                        /\ Candidates(filter_by_gpu_type(instance_types, <<>>))
                   ELSE /\ queries' = Append(queries,
                                        Query("get_available_gpu_types", None, FALSE))
                        /\ pc' = "select_gpu"
                        /\ UNCHANGED <<ctx, offers, raised, exit_code>>
       ELSE LET NoGpu(offer) == dict_get(offer.gpu.number_of_gpus, 0) = 0
            IN  /\ queries' = Append(queries, Query("list_all_offers", None, FALSE))
                /\ Candidates(SelectSeq(list_all_offers(instance_types), NoGpu))
                /\ UNCHANGED <<ctx, gpu_types>>
  /\ UNCHANGED <<run_frame, op, result, table>>

\* "Select GPU type" is answered and the offers of that label fetched.
RunSelectGpu ==
  /\ pc = "select_gpu"
  /\ \E selected_gpu \in arrow_key_answers(gpu_types) :
       /\ ctx' = [ctx EXCEPT !.gpu_requirements = Some(selected_gpu)]
       /\ queries' = Append(queries, Query("filter_by_gpu_type", Some(selected_gpu), FALSE))
       /\ Candidates(filter_by_gpu_type(instance_types, selected_gpu))
  /\ UNCHANGED <<run_frame, op, result, table, gpu_types>>

\* "Do you have a budget limit?" is answered; on no the table is drawn.
RunBudgetChoice ==
  /\ pc = "budget_choice"
  /\ \E budget_choice \in arrow_key_answers(<<<<"n","o">>, <<"y","e","s">>>>) :
       IF str_lower(budget_choice) = <<"y","e","s">>
       THEN pc' = "budget" /\ UNCHANGED <<table, raised, exit_code>>
       ELSE Draw(offers)
  /\ UNCHANGED <<run_frame, op, result, offers, queries, ctx, gpu_types>>

\* The budget is typed, the offers above it are dropped and the table is
\* drawn; float() of the text can raise, and no offer may be left.
RunBudget ==
  /\ pc = "budget"
  /\ \E text \in BudgetTexts :
       LET typed == float(text)
           Affordable(offer) == within_budget(offer, typed.value)
           remaining == SelectSeq(offers, Affordable)
       IN  IF typed.raised # ""
           THEN Fail(typed.raised) /\ UNCHANGED <<ctx, offers, table>>
           ELSE /\ ctx' = [ctx EXCEPT !.budget_limit = Some(typed.value)]
                /\ offers' = remaining
                /\ IF remaining = <<>>
                   THEN Fail("Exit") /\ UNCHANGED table
                   ELSE Draw(remaining)
  /\ UNCHANGED <<run_frame, op, result, queries, gpu_types>>

\* "Select instance" is answered with one of the numbers 1..min(5, len).
RunSelectInstance ==
  /\ pc = "select_instance"
  /\ \E instance_choice \in 1..(IF Len(offers) < TableRows THEN Len(offers) ELSE TableRows) :
       ctx' = [ctx EXCEPT !.selected_instance = Some(offers[instance_choice])]
  /\ pc' = "pricing"
  /\ UNCHANGED <<run_frame, op, result, offers, raised, queries, table, exit_code,
                 gpu_types>>

\* "Pricing preference" is answered and the summary printed; for spot the
\* savings are computed once more.
RunPricing ==
  /\ pc = "pricing"
  /\ \E pricing_choice \in arrow_key_answers(<<<<"s","p","o","t">>, <<"o","n","-","d","e","m","a","n","d">>>>) :
       LET s == IF pricing_choice = <<"s","p","o","t">> THEN savings(ctx.selected_instance[1])
                ELSE [value |-> None, raised |-> ""]
       IN  /\ result' = pricing_choice
           /\ IF s.raised # "" THEN Fail(s.raised)
              ELSE pc' = "proceed" /\ UNCHANGED <<raised, exit_code>>
  /\ UNCHANGED <<run_frame, op, offers, queries, table, ctx, gpu_types>>

\* "Proceed with this configuration?" is answered; the run ends.
RunProceed ==
  /\ pc = "proceed"
  /\ \E proceed_choice \in arrow_key_answers(<<<<"y","e","s">>, <<"n","o">>>>) : pc' = "done"
  /\ UNCHANGED <<run_frame, op, result, offers, raised, queries, table, exit_code,
                 ctx, gpu_types>>

NextWizard ==
  \/ RunStart
  \/ RunGpuChoice
  \/ RunSelectGpu
  \/ RunBudgetChoice
  \/ RunBudget
  \/ RunSelectInstance
  \/ RunPricing
  \/ RunProceed
  \/ Return

SpecWizard == InitWizard /\ [][NextWizard]_vars

(***************************************************************************)
(* Vocabulary of the properties                                            *)
(***************************************************************************)
Range(s) == { s[i] : i \in 1..Len(s) }

PosIn(s, x) == CHOOSE i \in 1..Len(s) : s[i] = x

\* r holds exactly the offers `members` of the snapshot s, once each, by
\* non-decreasing key, offers of equal key in the order they have in s.
StableArrangement(r, s, members, key) ==
  /\ Range(r) = members
  /\ Len(r) = Cardinality(members)
  /\ \A i, j \in 1..Len(r) :
       i < j => /\ r[i][key] <= r[j][key]
                /\ r[i][key] = r[j][key] => PosIn(s, r[i]) < PosIn(s, r[j])

\* The description text of an offer as the SDK delivered it ("" when the
\* gpu dict has none).
RawDescription(o) ==
  IF o.gpu.description = None THEN <<>> ELSE o.gpu.description[1]

\* Two characters equal up to letter case.
SameLetter(a, b) ==
  \/ a = b
  \/ \E k \in 1..Len(LowerCase) : {a, b} = {LowerCase[k], UpperCase[k]}

\* q occurs in d as a substring when letter case is disregarded.
CaseInsensitiveIn(q, d) ==
  \E i \in 0..(Len(d) - Len(q)) :
     \A j \in 1..Len(q) : SameLetter(q[j], d[i + j])

Matching(s, q) == { o \in Range(s) : CaseInsensitiveIn(q, RawDescription(o)) }

\* str.lower()
StrLower(s) ==
  [i \in 1..Len(s) |->
     IF \E k \in 1..Len(UpperCase) : UpperCase[k] = s[i]
     THEN LowerCase[CHOOSE k \in 1..Len(UpperCase) : UpperCase[k] = s[i]]
     ELSE s[i]]

\* The key get_cheapest_offer ranks by.
SortKey == IF spot THEN "spot_price_per_hour" ELSE "price_per_hour"

(***************************************************************************)
(* C1                                                                      *)
(***************************************************************************)
\* C1: list_all_offers returns a permutation of the snapshot ordered by
\* non-decreasing price_per_hour, offers of equal price in their original
\* relative order.
C1_ListAllSortedByPrice ==
  op = "list_all_offers" =>
    StableArrangement(result, seen, Range(seen), "price_per_hour")

(***************************************************************************)
(* C2                                                                      *)
(***************************************************************************)
\* C2: filter_by_gpu_type returns exactly the offers whose raw description
\* contains the query as a case-insensitive substring, whether or not the
\* extractor labels them, by non-decreasing price_per_hour with offers of
\* equal price in snapshot order.
C2_FilterMatchesRawDescription ==
  op = "filter_by_gpu_type" =>
    StableArrangement(result, seen, Matching(seen, gpu_type[1]), "price_per_hour")

\* A filter whose result holds, at one price and in snapshot order, an offer
\* the extractor labels and one it does not label and whose description has
\* the query only in another letter case, out of a snapshot with more offers.
C2_Witness ==
  /\ op = "filter_by_gpu_type"
  /\ Len(result) < Len(seen)
  /\ \E i, j \in 1..Len(result) :
       /\ i < j
       /\ result[i].price_per_hour = result[j].price_per_hour
       /\ extract_gpu_type(result[i].gpu.description).value = None
       /\ ~str_in(gpu_type[1], RawDescription(result[i]))
       /\ extract_gpu_type(result[j].gpu.description).value # None

C4_CheapestIsFirstMinimum ==
  (op = "get_cheapest_offer" /\ result # None) =>
    /\ result[1] \in Range(offers)
    /\ \A i \in 1..Len(offers) :
         /\ result[1][SortKey] <= offers[i][SortKey]
         /\ offers[i][SortKey] = result[1][SortKey] => PosIn(offers, result[1]) <= i

\* Spot preferred: the offer returned is not the first candidate, and
\* another candidate, later in the sequence, has the same minimal spot price.
C4_Witness ==
  /\ op = "get_cheapest_offer"
  /\ spot
  /\ result # None
  /\ PosIn(offers, result[1]) > 1
  /\ \E i \in 1..Len(offers) :
       /\ i > PosIn(offers, result[1])
       /\ offers[i].spot_price_per_hour = result[1].spot_price_per_hour

(***************************************************************************)
(* C5                                                                      *)
(***************************************************************************)
\* C5: get_cheapest_offer draws its candidates from filter_by_gpu_type(label)
\* when a (non-empty) label is given, whatever the spot flag; with no label
\* (None or "") from the offers with spot_price_per_hour > 0 when spot is
\* preferred, and from the whole snapshot otherwise.
C5_CandidateSource ==
  op = "get_cheapest_offer" =>
    IF gpu_type # None /\ gpu_type[1] # <<>>
    THEN StableArrangement(offers, seen, Matching(seen, gpu_type[1]), "price_per_hour")
    ELSE IF spot
    THEN LET SpotAvailable(o) == o.spot_price_per_hour > 0
         IN  offers = SelectSeq(seen, SpotAvailable)
    ELSE offers = seen

\* A label given together with the spot flag, and a candidate that has no
\* spot price: the candidates are the label's matches, not the spot offers.
C5_Witness ==
  /\ op = "get_cheapest_offer"
  /\ gpu_type # None /\ gpu_type[1] # <<>>
  /\ spot
  /\ Len(offers) < Len(seen)
  /\ \E i \in 1..Len(offers) : offers[i].spot_price_per_hour = 0

(***************************************************************************)
(* C6                                                                      *)
(***************************************************************************)
\* Some offer of s has a GPU, a description, and a label from the extractor.
YieldsLabel(o) ==
  /\ dict_get(o.gpu.number_of_gpus, 0) > 0
  /\ RawDescription(o) # <<>>
  /\ extract_gpu_type(Some(RawDescription(o))).value # None

\* C6: empty results are values, not errors.  get_cheapest_offer returns
\* None exactly when its candidate sequence is empty, so for an empty
\* snapshot and for a label that is a substring of no description;
\* filter_by_gpu_type returns the empty list when nothing matches;
\* get_available_gpu_types returns the empty list when no offer yields a
\* label; none of the three raises.
C6_EmptyResultsAreValues ==
  /\ op = "get_cheapest_offer" =>
       /\ raised = ""
       /\ (result = None) <=> (offers = <<>>)
       /\ seen = <<>> => result = None
       /\ (gpu_type # None /\ gpu_type[1] # <<>> /\ Matching(seen, gpu_type[1]) = {})
            => result = None
  /\ op = "filter_by_gpu_type" =>
       /\ raised = ""
       /\ Matching(seen, gpu_type[1]) = {} => result = <<>>
  /\ op = "get_available_gpu_types" =>
       /\ raised = ""
       /\ (\A o \in Range(seen) : ~YieldsLabel(o)) => result = <<>>

\* get_cheapest_offer returned None on a snapshot that has offers, for a
\* label no description contains.
C6_Witness ==
  /\ op = "get_cheapest_offer"
  /\ seen # <<>>
  /\ gpu_type # None /\ gpu_type[1] # <<>>
  /\ Matching(seen, gpu_type[1]) = {}
  /\ offers = <<>>
  /\ result = None
  /\ raised = ""

(***************************************************************************)
(* C7                                                                      *)
(***************************************************************************)
\* C7: the sequence returned by get_available_gpu_types has no duplicate
\* label and is in ascending lexicographic order.
C7_LabelsSortedNoDuplicates ==
  op = "get_available_gpu_types" =>
    \A i, j \in 1..Len(result) : i < j => str_lt(result[i], result[j])

\* Three offers that all yield a label, two of them the same one, the
\* snapshot's first offer yielding the label that is returned last.
C7_Witness ==
  /\ op = "get_available_gpu_types"
  /\ Len(seen) = 3
  /\ \A o \in Range(seen) : YieldsLabel(o)
  /\ Len(result) = 2
  /\ extract_gpu_type(Some(RawDescription(seen[1]))).value = Some(result[2])

(***************************************************************************)
(* C8                                                                      *)
(***************************************************************************)
Unknown == <<"U","n","k","n","o","w","n">>

\* C8: a label is returned by get_available_gpu_types exactly when some
\* offer of the snapshot has number_of_gpus > 0, a non-empty description and
\* that label from the extractor; offers with zero GPUs, with an empty
\* description or matched by no rule add nothing, and "Unknown" is never
\* an entry.
C8_LabelsComeFromGpuOffers ==
  op = "get_available_gpu_types" =>
    LET extracted ==
          { extract_gpu_type(Some(RawDescription(o))).value : o \in Range(seen) }
        labels == Range(result) \cup { e[1] : e \in extracted \ {None} } \cup {Unknown}
    IN  /\ \A L \in labels :
             L \in Range(result) <=>
               \E o \in Range(seen) :
                  /\ dict_get(o.gpu.number_of_gpus, 0) > 0
                  /\ RawDescription(o) # <<>>
                  /\ extract_gpu_type(Some(RawDescription(o))).value = Some(L)
        /\ Unknown \notin Range(result)

\* A snapshot with a labelled GPU offer, an offer with GPUs that no rule
\* matches, and an offer without GPUs whose description a rule matches.
C8_Witness ==
  /\ op = "get_available_gpu_types"
  /\ result # <<>>
  /\ \E o \in Range(seen) :
       /\ dict_get(o.gpu.number_of_gpus, 0) > 0
       /\ RawDescription(o) # <<>>
       /\ extract_gpu_type(Some(RawDescription(o))).value = None
  /\ \E o \in Range(seen) :
       /\ dict_get(o.gpu.number_of_gpus, 0) = 0
       /\ extract_gpu_type(Some(RawDescription(o))).value # None
       /\ extract_gpu_type(Some(RawDescription(o))).value[1] \notin Range(result)

(***************************************************************************)
(* C9                                                                      *)
(***************************************************************************)
\* The canonical labels in table order.
RuleLabels ==
  << <<"B","3","0","0">>, <<"B","2","0","0">>, <<"H","2","0","0">>, <<"H","1","0","0">>, <<"A","1","0","0">>, <<"R","T","X"," ","P","R","O">>, <<"R","T","X"," ","6","0","0","0">>,
     <<"R","T","X"," ","A","6","0","0","0">>, <<"T","e","s","l","a"," ","V","1","0","0">>, <<"L","4","0","S">> >>

\* The group of a rule with each \s+ written as one space.
GroupText(rule) ==
  [i \in 1..Len(rule.group) |-> IF rule.group[i] = WS THEN " " ELSE rule.group[i]]

\* The rules that match the description d somewhere.
MatchingRules(d) ==
  { i \in 1..Len(GPU_PATTERNS) : re_search(GPU_PATTERNS[i], d) # None }

\* The leftmost position of d where rule i matches.
MatchStart(i, d) ==
  LET whole == GPU_PATTERNS[i].group \o GPU_PATTERNS[i].rest
  IN  CHOOSE k \in 1..(Len(d) + 1) :
        /\ MatchAt(whole, d, k) # 0
        /\ \A m \in 1..(k - 1) : MatchAt(whole, d, m) = 0

\* C9: extract_gpu_type tries the rules in table order (B300, B200, H200,
\* H100, A100, RTX PRO, RTX 6000, RTX A6000, Tesla V100, L40S) and returns
\* the capture of the first that matches, wherever in the text the matches
\* are; "1x RTX PRO 6000 96GB" gives "RTX PRO" and "1x RTX 6000 Ada 48GB"
\* gives "RTX 6000".
C9_FirstRuleInTableOrderWins ==
  /\ \A i \in 1..Len(RuleLabels) :
       Len(GPU_PATTERNS) = Len(RuleLabels) /\ GroupText(GPU_PATTERNS[i]) = RuleLabels[i]
  /\ (op = "extract_gpu_type" /\ gpu_description # None) =>
       LET d == gpu_description[1]
           first == CHOOSE i \in MatchingRules(d) : \A k \in MatchingRules(d) : i <= k
       IN  /\ MatchingRules(d) # {} => result = re_search(GPU_PATTERNS[first], d)
           /\ d = <<"1","x"," ","R","T","X"," ","P","R","O"," ","6","0","0","0"," ","9","6","G","B">> => result = Some(<<"R","T","X"," ","P","R","O">>)
           /\ d = <<"1","x"," ","R","T","X"," ","6","0","0","0"," ","A","d","a"," ","4","8","G","B">> => result = Some(<<"R","T","X"," ","6","0","0","0">>)

\* A description two rules match, the rule later in the table matching
\* earlier in the text: the result is the earlier rule's capture.
C9_Witness ==
  /\ op = "extract_gpu_type"
  /\ gpu_description # None
  /\ \E i, k \in MatchingRules(gpu_description[1]) :
       /\ i < k
       /\ MatchStart(k, gpu_description[1]) < MatchStart(i, gpu_description[1])
       /\ result = Some(RuleLabels[i])

(***************************************************************************)
(* C10                                                                     *)
(***************************************************************************)
\* C10: extract_gpu_type returns None and raises nothing for an empty or
\* absent description and for every description no rule matches
\* case-sensitively, such as a family name without its suffix ("A100" not
\* followed by "SXM4") or in another letter case.
C10_NoRuleNoLabel ==
  op = "extract_gpu_type" =>
    /\ raised = ""
    /\ gpu_description = None => result = None
    /\ gpu_description # None =>
         LET d == gpu_description[1]
         IN  /\ d = <<>> => result = None
             /\ MatchingRules(d) = {} => result = None
             /\ d \in { <<"N","o"," ","G","P","U">>, <<"1","x"," ","A","1","0","0"," ","P","C","I","e"," ","4","0","G","B">>, <<"1","x"," ","a","1","0","0"," ","s","x","m","4"," ","4","0","g","b">> }
                  => result = None

\* A description that differs from a matching one only by letter case, for
\* which None was returned.
C10_Witness ==
  /\ op = "extract_gpu_type"
  /\ gpu_description # None
  /\ MatchingRules(gpu_description[1]) = {}
  /\ MatchingRules(str_upper(gpu_description[1])) # {}
  /\ result = None
  /\ raised = ""

(***************************************************************************)
(* C12                                                                     *)
(***************************************************************************)
CpuOnly == <<"C","P","U"," ","O","n","l","y">>

\* The decimal text of the GPU counts.
DecimalText(n) ==
  CASE n = 0 -> <<"0">> [] n = 1 -> <<"1">> [] n = 2 -> <<"2">> [] n = 3 -> <<"3">>
    [] n = 4 -> <<"4">> [] n = 8 -> <<"8">> [] n = 10 -> <<"1","0">> [] n = 16 -> <<"1","6">>

C14_SpotOffersSortedBySpotPrice ==
  op = "list_spot_offers" =>
    \A i, j \in 1..Len(result) :
       i < j => result[i].spot_price_per_hour <= result[j].spot_price_per_hour

(***************************************************************************)
(* C15                                                                     *)
(***************************************************************************)
\* C15: no catalog query changes the snapshot it received from the adapter:
\* the list returned by get_instance_types keeps its order and membership.
C15_QueriesLeaveSnapshotAlone ==
  [][instance_types' = instance_types]_vars

(***************************************************************************)
(* C16                                                                     *)
(***************************************************************************)
\* What every query would return on the list l.
Answers(l) ==
  [ list_all |-> list_all_offers(l),
    list_spot |-> list_spot_offers(l),
    filter |-> [g \in GpuTypeArgs \ {None} |-> filter_by_gpu_type(l, g[1])],
    cheapest |-> [a \in GpuTypeArgs \X BOOLEAN |->
                    get_cheapest_offer(l, a[1], a[2]).value],
    gpu_types |-> get_available_gpu_types(l) ]

\* C16: catalog queries are stateless and idempotent: the result of any
\* query, order included, is the same whichever queries ran before it and
\* however often it is repeated; so no call changes what a query returns.
C16_QueriesAreIdempotent ==
  [][(pc = "idle" /\ pc' = "done") =>
        Answers(instance_types') = Answers(instance_types)]_vars

(***************************************************************************)
(* C17                                                                     *)
(***************************************************************************)
CatalogQueries ==
  { "list_all_offers", "list_spot_offers", "filter_by_gpu_type",
    "get_cheapest_offer", "get_available_gpu_types" }

\* C17: each catalog query calls the SDK's instance_types.get at most once
\* per call, on every path, get_cheapest_offer with any combination of label
\* and spot flag included.
C17_AtMostOneFetch ==
  op \in CatalogQueries => fetches <= 1

\* get_cheapest_offer with a label and the spot flag, served by one fetch.
C17_Witness ==
  /\ op = "get_cheapest_offer"
  /\ gpu_type # None /\ gpu_type[1] # <<>>
  /\ spot
  /\ result # None
  /\ fetches = 1

(***************************************************************************)
(* C18                                                                     *)
(***************************************************************************)
\* The credential in force after the fallback to the environment.
Resolved(given, from_env) ==
  IF given # None /\ given[1] # <<>> THEN given ELSE from_env

ResolvedId == Resolved(credentials.client_id, environ.DATACRUNCH_CLIENT_ID)
ResolvedSecret ==
  Resolved(credentials.client_secret, environ.DATACRUNCH_CLIENT_SECRET)

Missing(c) == c = None \/ c[1] = <<>>

\* C18: constructing DatacrunchAdapter fails with the "Datacrunch
\* credentials not found" error whenever, after the fallback to the
\* environment, the client id or the client secret is missing or empty, and
\* then no SDK client is created; otherwise exactly one SDK client is
\* created, with the resolved pair.
C18_MissingCredentialsFail ==
  op = "__init__" =>
    IF Missing(ResolvedId) \/ Missing(ResolvedSecret)
    THEN raised = "ValueError" /\ adapter.clients = <<>>
    ELSE raised = "" /\ adapter.clients = << <<ResolvedId, ResolvedSecret>> >>

\* The id resolves to a value, the secret only to the empty string the
\* environment holds: the construction fails and no client exists.
C18_Witness ==
  /\ op = "__init__"
  /\ ~Missing(ResolvedId)
  /\ ResolvedSecret = Some(<<>>)
  /\ raised = "ValueError"
  /\ adapter.clients = <<>>

(***************************************************************************)
(* C19                                                                     *)
(***************************************************************************)
\* C19: an error the adapter's fetch raises during a catalog query reaches
\* the caller of the InstanceSelectionService method unchanged, neither
\* caught, wrapped nor replaced, and the fetch is not retried.
C19_FetchErrorPropagates ==
  (op \in CatalogQueries /\ sdk_error # None) =>
    /\ raised = sdk_error[1]
    /\ result = None
    /\ fetches = 1

\* get_cheapest_offer for a label ended with the SDK's ConnectionError.
C19_Witness ==
  /\ op = "get_cheapest_offer"
  /\ gpu_type # None /\ gpu_type[1] # <<>>
  /\ instance_types # <<>>
  /\ sdk_error = Some("ConnectionError")
  /\ raised = "ConnectionError"
  /\ fetches = 1

(***************************************************************************)
(* C20                                                                     *)
(***************************************************************************)
\* C20: for each credential on its own, a non-empty value passed explicitly
\* is the one the adapter uses and hands to the SDK client; the environment
\* variable is consulted only when the explicit value is absent (None or "").
C20_ExplicitCredentialWins ==
  op = "__init__" =>
    /\ ~Missing(credentials.client_id) =>
         /\ adapter.client_id = credentials.client_id
         /\ "DATACRUNCH_CLIENT_ID" \notin adapter.consulted
         /\ adapter.clients # <<>> => adapter.clients[1][1] = credentials.client_id
    /\ ~Missing(credentials.client_secret) =>
         /\ adapter.client_secret = credentials.client_secret
         /\ "DATACRUNCH_CLIENT_SECRET" \notin adapter.consulted
         /\ adapter.clients # <<>> => adapter.clients[1][2] = credentials.client_secret
    /\ "DATACRUNCH_CLIENT_ID" \in adapter.consulted => Missing(credentials.client_id)
    /\ "DATACRUNCH_CLIENT_SECRET" \in adapter.consulted
         => Missing(credentials.client_secret)

\* An explicit id while the environment holds another one, the secret left
\* to the environment: the client gets the explicit id and the
\* environment's secret.
C20_Witness ==
  /\ op = "__init__"
  /\ ~Missing(credentials.client_id)
  /\ ~Missing(environ.DATACRUNCH_CLIENT_ID)
  /\ credentials.client_id # environ.DATACRUNCH_CLIENT_ID
  /\ credentials.client_secret = None
  /\ adapter.consulted = {"DATACRUNCH_CLIENT_SECRET"}
  /\ adapter.clients =
       << <<credentials.client_id, environ.DATACRUNCH_CLIENT_SECRET>> >>

(***************************************************************************)
(* C21                                                                     *)
(***************************************************************************)
\* C21: list_offers makes exactly one service query per call, chosen by the
\* precedence cheapest_only > gpu_type > spot_only > all offers; with
\* cheapest_only it passes gpu_type and spot_only through to
\* get_cheapest_offer and returns a one-element list holding that offer, or
\* the empty list when there is none.
C21_ListOffersOneQuery ==
  op = "list_offers" =>
    /\ Len(queries) = 1
    /\ queries[1].name =
         (IF cheapest_only THEN "get_cheapest_offer"
          ELSE IF gpu_type # None /\ gpu_type[1] # <<>> THEN "filter_by_gpu_type"
          ELSE IF spot THEN "list_spot_offers"
          ELSE "list_all_offers")
    /\ cheapest_only =>
         /\ queries[1].gpu_type = gpu_type
         /\ queries[1].spot = spot
         /\ LET cheapest == get_cheapest_offer(seen, gpu_type, spot).value
            IN  result = IF cheapest = None THEN <<>> ELSE <<cheapest[1]>>

\* cheapest_only with a label and the spot flag: one query, one offer.
C21_Witness ==
  /\ op = "list_offers"
  /\ cheapest_only
  /\ gpu_type # None /\ gpu_type[1] # <<>>
  /\ spot
  /\ Len(queries) = 1
  /\ Len(result) = 1

(***************************************************************************)
(* C22                                                                     *)
(***************************************************************************)
CanonicalLabels ==
  { <<"B","3","0","0">>, <<"B","2","0","0">>, <<"H","2","0","0">>, <<"H","1","0","0">>, <<"A","1","0","0">>, <<"R","T","X"," ","P","R","O">>, <<"R","T","X"," ","6","0","0","0">>,
    <<"R","T","X"," ","A","6","0","0","0">>, <<"T","e","s","l","a"," ","V","1","0","0">>, <<"L","4","0","S">> }

\* C22: every result of extract_gpu_type other than None is one of the ten
\* canonical labels, character for character, for every description, those
\* with tabs or repeated spaces between words included.
C22_LabelsAreCanonical ==
  (op = "extract_gpu_type" /\ result # None) => result[1] \in CanonicalLabels

(***************************************************************************)
(* C23                                                                     *)
(***************************************************************************)
\* C23: whenever get_cheapest_offer is called with spot preferred and
\* returns an offer, that offer has spot_price_per_hour > 0, for every
\* snapshot and every gpu_type argument, given or not.
C23_SpotCheapestHasSpotPrice ==
  (op = "get_cheapest_offer" /\ spot /\ result # None) =>
    result[1].spot_price_per_hour > 0

(***************************************************************************)
(* C24                                                                     *)
(***************************************************************************)
\* The wizard has filtered by a label picked from the catalog, and no
\* budget has been applied to the offers yet.
LabelSelected ==
  /\ op = "run"
  /\ gpu_types # <<>>
  /\ ctx.gpu_requirements # None
  /\ ctx.budget_limit = None

\* C24: for every label L in get_available_gpu_types(snapshot),
\* filter_by_gpu_type(L) on the same snapshot is non-empty and contains
\* every offer from which L was extracted.
C24_CatalogLabelFindsItsOffers ==
  LabelSelected =>
    /\ ctx.gpu_requirements[1] \in Range(gpu_types)
    /\ offers # <<>>
    /\ \A o \in Range(instance_types) :
         ( /\ o.gpu.description # None
           /\ o.gpu.number_of_gpus # None /\ o.gpu.number_of_gpus[1] > 0
           /\ extract_gpu_type(o.gpu.description).value = ctx.gpu_requirements )
         => o \in Range(offers)

\* A catalog of two labels, and a filter result of two offers one of which
\* the label was not extracted from.
C24_Witness ==
  /\ LabelSelected
  /\ Len(gpu_types) >= 2
  /\ Len(offers) >= 2
  /\ \E o \in Range(offers) :
       extract_gpu_type(o.gpu.description).value # ctx.gpu_requirements

(***************************************************************************)
(* C25                                                                     *)
(***************************************************************************)
\* C25: for every snapshot, DatacrunchAdapter.get_available_gpu_types
\* returns the same sequence as get_available_gpu_types_from_instances
\* applied to that snapshot.
C25_AdapterCatalogEqualsShared ==
  (op = "run" /\ queries # <<>> /\ queries[1].name = "get_available_gpu_types") =>
    gpu_types = get_available_gpu_types_from_instances(instance_types)

\* Two labels in the catalog the wizard fetched, over a snapshot that also
\* holds a described offer without a GPU count.
C25_Witness ==
  /\ op = "run"
  /\ queries # <<>> /\ queries[1].name = "get_available_gpu_types"
  /\ Len(gpu_types) >= 2
  /\ \E o \in Range(instance_types) :
       o.gpu.description # None /\ o.gpu.number_of_gpus = None

(***************************************************************************)
(* C26                                                                     *)
(***************************************************************************)
\* C26: the GPU column the CLI list command computes inline equals
\* format_gpu_display(description, number_of_gpus) for every offer, offers
\* with more than one GPU whose description matches no rule included.
C26_InlineColumnEqualsFormat ==
  (op = "list" /\ exit_code = None) =>
    \A i \in 1..Len(table) :
       table[i].gpu_display =
         format_gpu_display(
           Some(IF offers[i].gpu.description = None THEN <<>>
                ELSE offers[i].gpu.description[1]),
           IF offers[i].gpu.number_of_gpus = None THEN 0
           ELSE offers[i].gpu.number_of_gpus[1])

(***************************************************************************)
(* C27                                                                     *)
(***************************************************************************)
\* C27: when the user cancels the arrow-key selection (inquirer.prompt
\* returns no answer), get_arrow_key_input ends the session with exit
\* status 1; it neither presents the numbered prompt nor returns a selection.
C27_CancelEndsSession ==
  (op = "get_arrow_key_input" /\ caught = "Exit") =>
    /\ pc = "done"
    /\ exit_code = <<1>>
    /\ prompts = <<"inquirer">>
    /\ result = <<>>

(***************************************************************************)
(* C28                                                                     *)
(***************************************************************************)
\* C28: in the wizard, when the user answers yes to GPU acceleration, every
\* offer that reaches the instance table has number_of_gpus > 0 and a
\* description containing the selected GPU label; when the snapshot yields
\* no GPU labels the wizard offers no instance.
C28_GpuTableHoldsGpuOffers ==
  (op = "run" /\ ctx.gpu_requirements # None /\ table # <<>>) =>
    /\ gpu_types # <<>>
    /\ \A i \in 1..Len(table) :
         /\ offers[i].gpu.number_of_gpus # None
         /\ offers[i].gpu.number_of_gpus[1] > 0
         /\ CaseInsensitiveIn(ctx.gpu_requirements[1], RawDescription(offers[i]))

(***************************************************************************)
(* C29                                                                     *)
(***************************************************************************)
\* C29: in every run of the wizard that records a selected instance, the
\* instance prompt was reached with a non-empty offer list, the recorded
\* instance is one of the at most five offers shown in the table, and, when
\* a budget limit was entered, its price_per_hour is not above that limit.
C29_SelectedInstanceWasShown ==
  (op = "run" /\ ctx.selected_instance # None) =>
    /\ offers # <<>>
    /\ Len(table) <= 5
    /\ \E i \in 1..Len(table) :
         /\ offers[i] = ctx.selected_instance[1]
         /\ table[i].instance_type = ctx.selected_instance[1].instance_type
    /\ ctx.budget_limit # None =>
         ctx.selected_instance[1].price_per_hour * ctx.budget_limit[1].den
           <= ctx.budget_limit[1].num

\* A budget of 2 leaves six offers, five are shown, the fifth is recorded.
C29_Witness ==
  /\ op = "run"
  /\ ctx.budget_limit = <<[num |-> 2, den |-> 1]>>
  /\ Len(offers) = 6
  /\ Len(table) = 5
  /\ ctx.selected_instance = <<offers[5]>>

(***************************************************************************)
(* C30                                                                     *)
(***************************************************************************)
\* C30: for every snapshot whose offers all have price_per_hour >= 0, zero
\* included, the CLI list command without --spot renders one table row per
\* returned offer, up to the limit, and does not end in the error exit with
\* status 1.
C30_ListRendersEveryOffer ==
  (op = "list" /\ ~spot /\ \A o \in Range(seen) : o.price_per_hour >= 0) =>
    /\ exit_code = None
    /\ Len(table) = Len(offers)
====
